---- MODULE Spec2Model ----
(***************************************************************************)
(* Model of train.py: the orchestration sequence of main() run by every    *)
(* worker of a distributed training job, and the GPU-to-rank assignment    *)
(* computed in its "Choose GPUs" block.                                    *)
(*                                                                         *)
(* Spec      : world_size workers run main() concurrently; every external  *)
(*             call may raise, the two try_barrier() calls synchronise.    *)
(* SpecPlan  : the "Choose GPUs" block as a pure function, evaluated for   *)
(*             two ranks of one job over a wide range of topologies.       *)
(***************************************************************************)
EXTENDS Integers, Sequences, FiniteSets, TLC

(* ---------------------------- bounds ----------------------------------- *)
\* largest number of workers running main() concurrently in Spec
MaxWorld == 2
\* largest world size, ranks-per-node and gpus-per-rank in SpecPlan
MaxPlanWorld == 16
MaxPlanRanksPerNode == 8
MaxPlanGpusPerRank == 2

(* ------------------------ Python values -------------------------------- *)
\* None / a present value, for optional arguments and unbound variables
None == << >>
Some(x) == << x >>
IsNone(o) == o = << >>
Val(o) == o[1]

\* min(a, b)
Min(a, b) == IF a < b THEN a ELSE b

(* ------------------------ command line --------------------------------- *)
\* choices of -d/--distributed-backend
BackendChoices == {"mpi", "nccl", "gloo"}
\* default of --ranks-per-node
DefaultRanksPerNode == 8
\* explicit --gpus lists tried (unsorted, and overlapping derived plans)
ExplicitGpuLists == { <<1, 0>>, <<3>> }
\* the command lines of Spec: one backend or none, one explicit list or none,
\* one rank per node or the default (more than there are workers), two GPUs
\* per rank or no --gpus-per-rank
BackendsTried == {"nccl"}
GpuListsTried == { <<1, 0>> }
RanksPerNodeTried == {1, DefaultRanksPerNode}
GpusPerRankTried == {2}

\* the namespace returned by parse_args(), restricted to what main() reads
Args(backend, gpus, rpn, gpr, resume) ==
    [ distributed_backend |-> backend, gpus |-> gpus, ranks_per_node |-> rpn,
      gpus_per_rank |-> gpr, resume |-> resume ]

(* ------------------------ Choose GPUs ---------------------------------- *)
local_size_of(a, n_ranks) == Min(a.ranks_per_node, n_ranks)
local_rank_of(a, rank, n_ranks) == rank % local_size_of(a, n_ranks)

\* variant: the stride is dropped, gpus = [i + local_rank for i in ...]
DerivedGpusNoStride(a, rank, n_ranks) ==
    LET local_rank == local_rank_of(a, rank, n_ranks)
        elem(i) == i + local_rank
    IN  [ k \in 1 .. Val(a.gpus_per_rank) |-> elem(k - 1) ]

\* variant: the contiguous layout the source keeps commented out
DerivedGpusContiguous(a, rank, n_ranks) ==
    LET local_rank == local_rank_of(a, rank, n_ranks)
        elem(i) == local_rank * Val(a.gpus_per_rank) + i
    IN  [ k \in 1 .. Val(a.gpus_per_rank) |-> elem(k - 1) ]

\* variant: i runs over 1 .. gpus_per_rank instead of range(gpus_per_rank)
DerivedGpusOneBased(a, rank, n_ranks) ==
    LET local_size == local_size_of(a, n_ranks)
        local_rank == local_rank_of(a, rank, n_ranks)
        elem(i) == i * local_size + local_rank
    IN  [ k \in 1 .. Val(a.gpus_per_rank) |-> elem(k) ]

\* the gpus_per_rank branch: [elem(i) for i in range(args.gpus_per_rank)], the
\* list index k standing for i = k - 1
DerivedGpus(a, rank, n_ranks) ==
    LET local_size == local_size_of(a, n_ranks)
        local_rank == local_rank_of(a, rank, n_ranks)
        elem(i) == i * local_size + local_rank
    IN  [ k \in 1 .. Val(a.gpus_per_rank) |-> elem(k - 1) ]

\* variant: the two tests are swapped, --gpus-per-rank is looked at first
ChooseGpusCountFirst(a, rank, n_ranks) ==
    IF ~IsNone(a.gpus_per_rank) THEN DerivedGpus(a, rank, n_ranks)
    ELSE IF ~IsNone(a.gpus) THEN Val(a.gpus)
    ELSE << >>

\* variant: without --gpus and --gpus-per-rank the plan is device 0
ChooseGpusDefaultZero(a, rank, n_ranks) ==
    IF ~IsNone(a.gpus) THEN Val(a.gpus)
    ELSE IF ~IsNone(a.gpus_per_rank) THEN DerivedGpus(a, rank, n_ranks)
    ELSE << 0 >>

\* the whole if / elif / else
ChooseGpus(a, rank, n_ranks) ==
    IF ~IsNone(a.gpus) THEN Val(a.gpus)
    ELSE IF ~IsNone(a.gpus_per_rank) THEN DerivedGpus(a, rank, n_ranks)
    ELSE << >>

(* ------------------------ state ---------------------------------------- *)
VARIABLES
    world,          \* number of worker processes launched for the job
    args,           \* parsed command line, the same for every worker
    config,         \* set of top-level keys of the YAML configuration
    has_valid,      \* whether get_data_loaders returns a validation loader
    pc,             \* pc[p]: orchestration state of worker p
    rank,           \* rank[p]: rank returned by init_workers, None before
    n_ranks,        \* n_ranks[p]: world size returned by init_workers
    gpus,           \* gpus[p]: the device plan, None until chosen
    trainer,        \* trainer[p]: arguments given to get_trainer, None before
    barriers,       \* barriers[p]: number of try_barrier() calls entered
    released,       \* released[p]: number of try_barrier() calls returned
    raised,         \* raised[p]: the exception raised in worker p, or None
    trace,          \* trace[p]: calls and log lines of worker p, in order
    loaders,        \* loaders[p]: what get_data_loaders was given and returned
    log_file,       \* log_file[p]: log_file= and append= of config_logging
    dir_exists,     \* whether the directory output_dir names exists on disk
    planner         \* SpecPlan: inputs and outputs of two ChooseGpus runs

vars == << world, args, config, has_valid, pc, rank, n_ranks, gpus, trainer,
           barriers, released, raised, trace, loaders, log_file, dir_exists,
           planner >>

orch_vars == << world, args, config, has_valid, pc, rank, n_ranks, gpus,
                trainer, barriers, released, raised, trace, loaders, log_file,
                dir_exists >>

\* what the output and logging setup and the dataset loading write
setup == << loaders, log_file, dir_exists >>

Procs == 0 .. (world - 1)

RequiredKeys == {"trainer", "data", "train"}
ConfigKeys == RequiredKeys \cup {"output_dir"}

\* the planner of SpecPlan before its inputs are drawn
Idle == [ args |-> Args(None, None, DefaultRanksPerNode, None, FALSE),
          n_ranks |-> 1, ranks |-> << >>, plans |-> << >>,
          node |-> None, node_plans |-> << >> ]

(* ------------------------ initial state -------------------------------- *)
\* an optional argument over the values vs
Optional(vs) == {None} \cup { Some(v) : v \in vs }

\* Without a backend the job is one process; with one, 1..MaxWorld processes.
Init ==
    /\ args \in { Args(b, g, n, k, r) :
                    b \in Optional(BackendsTried \cap BackendChoices),
                    g \in Optional(GpuListsTried), n \in RanksPerNodeTried,
                    k \in Optional(GpusPerRankTried), r \in BOOLEAN }
    /\ world \in IF IsNone(args.distributed_backend) THEN {1} ELSE 1 .. MaxWorld
    /\ config \in SUBSET ConfigKeys
    /\ has_valid \in BOOLEAN
    /\ pc = [ p \in Procs |-> "START" ]
    /\ rank = [ p \in Procs |-> None ]
    /\ n_ranks = [ p \in Procs |-> None ]
    /\ gpus = [ p \in Procs |-> None ]
    /\ trainer = [ p \in Procs |-> None ]
    /\ barriers = [ p \in Procs |-> 0 ]
    /\ released = [ p \in Procs |-> 0 ]
    /\ raised = [ p \in Procs |-> None ]
    /\ trace = [ p \in Procs |-> << >> ]
    /\ loaders = [ p \in Procs |-> None ]
    /\ log_file = [ p \in Procs |-> None ]
    /\ dir_exists \in IF "output_dir" \in config THEN BOOLEAN ELSE {FALSE}
    /\ planner = Idle

(* ------------------------ steps of main() ------------------------------ *)
\* the orchestration states of a worker, in program order; RESUMED is
\* skipped without --resume, ABORTED is the process ended by an exception
States == << "START", "TOPOLOGY_DISCOVERED", "CONFIG_LOADED", "OUTPUT_PREPARED",
             "LOGGING_CONFIGURED", "LOGGING_READY", "DATA_LOADED",
             "DEVICES_PLANNED", "TRAINER_CONSTRUCTED", "TRAINER_BUILT",
             "RESUMED", "TRAIN_RETURNED", "TRAINED", "REPORTED", "DONE" >>
OrdOf == [ s \in { States[i] : i \in 1 .. Len(States) } |->
             CHOOSE i \in 1 .. Len(States) : States[i] = s ]
Ord(s) == OrdOf[s]

fixed == << world, args, config, has_valid, planner >>

\* worker p moves to state s, having made the calls cs
Goto(p, s, cs) ==
    /\ pc' = [ pc EXCEPT ![p] = s ]
    /\ trace' = [ trace EXCEPT ![p] = @ \o cs ]
    /\ UNCHANGED raised

\* the exception e leaves main() after the calls cs: nothing catches it
Raise(p, e, cs) ==
    /\ pc' = [ pc EXCEPT ![p] = "ABORTED" ]
    /\ trace' = [ trace EXCEPT ![p] = @ \o cs ]
    /\ raised' = [ raised EXCEPT ![p] = Some(e) ]
    /\ UNCHANGED << fixed, setup, rank, n_ranks, gpus, trainer, barriers, released >>

\* rank, n_ranks = init_workers(args.distributed_backend)
InitWorkers(p) ==
    /\ pc[p] = "START"
    /\ rank' = [ rank EXCEPT ![p] = Some(p) ]
    /\ n_ranks' = [ n_ranks EXCEPT ![p] = Some(world) ]
    /\ Goto(p, "TOPOLOGY_DISCOVERED", << "init_workers" >>)
    /\ UNCHANGED << fixed, setup, gpus, trainer, barriers, released >>

\* the requested backend is unavailable
InitWorkersFails(p) ==
    /\ pc[p] = "START"
    /\ ~IsNone(args.distributed_backend)
    /\ Raise(p, "TopologyError", << "init_workers" >>)

\* variant: the configuration is loaded before init_workers is called
LoadConfigBeforeTopology(p) ==
    /\ pc[p] = "START"
    /\ trace[p] = << >>
    /\ Goto(p, "START", << "load_config" >>)
    /\ UNCHANGED << fixed, setup, rank, n_ranks, gpus, trainer, barriers, released >>

\* config = load_config(args.config)
LoadConfig(p) ==
    /\ pc[p] = "TOPOLOGY_DISCOVERED"
    /\ Goto(p, "CONFIG_LOADED", << "load_config" >>)
    /\ UNCHANGED << fixed, setup, rank, n_ranks, gpus, trainer, barriers, released >>

LoadConfigFails(p) ==
    /\ pc[p] = "TOPOLOGY_DISCOVERED"
    /\ Raise(p, "ConfigError", << "load_config" >>)

\* variant: os.makedirs(output_dir) without exist_ok=True
PrepareOutputDirNotExistOk(p) ==
    /\ pc[p] = "CONFIG_LOADED"
    /\ IF "output_dir" \in config /\ dir_exists
       THEN Raise(p, "FileExistsError", << "makedirs" >>)
       ELSE /\ dir_exists' = ("output_dir" \in config)
            /\ Goto(p, "OUTPUT_PREPARED",
                    IF "output_dir" \in config THEN << "makedirs" >> ELSE << >>)
            /\ UNCHANGED << fixed, loaders, log_file, rank, n_ranks, gpus,
                            trainer, barriers, released >>

\* output_dir = config.get('output_dir', None); with an output_dir,
\* os.makedirs(output_dir, exist_ok=True) creates the directory unless it
\* exists
PrepareOutputDir(p) ==
    /\ pc[p] = "CONFIG_LOADED"
    /\ dir_exists' = (dir_exists \/ "output_dir" \in config)
    /\ Goto(p, "OUTPUT_PREPARED",
            IF "output_dir" \in config THEN << "makedirs" >> ELSE << >>)
    /\ UNCHANGED << fixed, loaders, log_file, rank, n_ranks, gpus, trainer,
                    barriers, released >>

\* variant: the file name does not depend on the rank
LogFileNameNoRank(r) == << "out", ".log" >>

\* 'out_%i.log' % rank, the name of the file inside output_dir
LogFileName(r) == << "out_", r, ".log" >>

\* the mode in which config_logging opens the log file: appending when
\* append is set, truncating otherwise
OpenMode(append) == IF append THEN "a" ELSE "w"

\* log_file= and append= as main() passes them to config_logging
LoggingArgs(p) ==
    [ log_file |-> IF "output_dir" \in config
                   THEN Some(LogFileName(Val(rank[p]))) ELSE None,
      append |-> args.resume ]

\* variant: the try_barrier() after the logging setup is missing
SetupLoggingNoBarrier(p) ==
    /\ pc[p] = "OUTPUT_PREPARED"
    /\ Goto(p, "LOGGING_READY",
            << "config_logging", "info_initialized" >>
            \o (IF Val(rank[p]) = 0 THEN << "info_configuration" >> ELSE << >>))
    /\ log_file' = [ log_file EXCEPT ![p] = Some(LoggingArgs(p)) ]
    /\ UNCHANGED << fixed, loaders, dir_exists, rank, n_ranks, gpus, trainer,
                    barriers, released >>

\* variant: only rank 0 enters the barrier after config_logging
SetupLoggingRankZeroBarrier(p) ==
    /\ pc[p] = "OUTPUT_PREPARED"
    /\ barriers' = [ barriers EXCEPT
                       ![p] = IF Val(rank[p]) = 0 THEN @ + 1 ELSE @ ]
    /\ Goto(p, IF Val(rank[p]) = 0 THEN "LOGGING_CONFIGURED" ELSE "LOGGING_READY",
            << "config_logging", "info_initialized" >>
            \o (IF Val(rank[p]) = 0 THEN << "try_barrier" >> ELSE << >>))
    /\ log_file' = [ log_file EXCEPT ![p] = Some(LoggingArgs(p)) ]
    /\ UNCHANGED << fixed, loaders, dir_exists, rank, n_ranks, gpus, trainer,
                    released >>

\* config_logging(...); logging.info('Initialized ...'); enters try_barrier()
SetupLogging(p) ==
    /\ pc[p] = "OUTPUT_PREPARED"
    /\ barriers' = [ barriers EXCEPT ![p] = @ + 1 ]
    /\ Goto(p, "LOGGING_CONFIGURED",
            << "config_logging", "info_initialized", "try_barrier" >>)
    /\ log_file' = [ log_file EXCEPT ![p] = Some(LoggingArgs(p)) ]
    /\ UNCHANGED << fixed, loaders, dir_exists, rank, n_ranks, gpus, trainer,
                    released >>

\* the k-th barrier of worker p releases it: every worker has entered it
BarrierOpen(p) == \A q \in Procs : barriers[q] >= barriers[p]

\* try_barrier() returns; if rank == 0: logging.info('Configuration: ...')
FirstBarrier(p) ==
    /\ pc[p] = "LOGGING_CONFIGURED"
    /\ BarrierOpen(p)
    /\ released' = [ released EXCEPT ![p] = @ + 1 ]
    /\ Goto(p, "LOGGING_READY",
            IF Val(rank[p]) = 0 THEN << "info_configuration" >> ELSE << >>)
    /\ UNCHANGED << fixed, setup, rank, n_ranks, gpus, trainer, barriers >>

\* variant: distributed = n_ranks > 1
distributedByWorldSize == world > 1

\* distributed = args.distributed_backend is not None
distributed == ~IsNone(args.distributed_backend)

\* the distributed= argument of get_data_loaders and whether the
\* valid_data_loader it returns is a loader or None
LoaderCall == [ distributed |-> distributed, valid |-> has_valid ]

\* get_data_loaders(distributed=distributed, **config['data']) returns
GetDataLoaders(p) ==
    /\ pc[p] = "LOGGING_READY"
    /\ "data" \in config
    /\ loaders' = [ loaders EXCEPT ![p] = Some(LoaderCall) ]
    /\ Goto(p, "DATA_LOADED", << "get_data_loaders" >>)
    /\ UNCHANGED << fixed, log_file, dir_exists, rank, n_ranks, gpus, trainer,
                    barriers, released >>

\* config['data'] raises KeyError while the arguments are evaluated
GetDataLoadersKeyError(p) ==
    /\ pc[p] = "LOGGING_READY"
    /\ "data" \notin config
    /\ Raise(p, "KeyError", << >>)

GetDataLoadersFails(p) ==
    /\ pc[p] = "LOGGING_READY"
    /\ "data" \in config
    /\ Raise(p, "DataError", << "get_data_loaders" >>)

\* variant: the GPUs are chosen in place of loading the datasets
ChooseGpusSkipsData(p) ==
    /\ pc[p] = "LOGGING_READY"
    /\ LET plan == ChooseGpus(args, Val(rank[p]), Val(n_ranks[p]))
       IN  /\ gpus' = [ gpus EXCEPT ![p] = Some(plan) ]
           /\ Goto(p, "DEVICES_PLANNED",
                   IF Len(plan) > 0 THEN << "info_using_gpus" >> ELSE << >>)
    /\ UNCHANGED << fixed, setup, rank, n_ranks, trainer, barriers, released >>

\* if args.gpus ... elif args.gpus_per_rank ... else; log a non-empty plan
ChooseGpusStep(p) ==
    /\ pc[p] = "DATA_LOADED"
    /\ LET plan == ChooseGpus(args, Val(rank[p]), Val(n_ranks[p]))
       IN  /\ gpus' = [ gpus EXCEPT ![p] = Some(plan) ]
           /\ Goto(p, "DEVICES_PLANNED",
                   IF Len(plan) > 0 THEN << "info_using_gpus" >> ELSE << >>)
    /\ UNCHANGED << fixed, setup, rank, n_ranks, trainer, barriers, released >>

\* the keyword arguments of get_trainer
TrainerArgs(p) ==
    [ distributed |-> distributed, devices |-> Val(gpus[p]),
      rank |-> Val(rank[p]), output_dir |-> "output_dir" \in config ]

\* trainer = get_trainer(name=config['trainer'], ...) returns
GetTrainer(p) ==
    /\ pc[p] = "DEVICES_PLANNED"
    /\ "trainer" \in config
    /\ trainer' = [ trainer EXCEPT ![p] = Some(TrainerArgs(p)) ]
    /\ Goto(p, "TRAINER_CONSTRUCTED", << "get_trainer" >>)
    /\ UNCHANGED << fixed, setup, rank, n_ranks, gpus, barriers, released >>

\* variant: config.get('trainer') instead of config['trainer']
GetTrainerKeyIgnored(p) ==
    /\ pc[p] = "DEVICES_PLANNED"
    /\ "trainer" \notin config
    /\ trainer' = [ trainer EXCEPT ![p] = Some(TrainerArgs(p)) ]
    /\ Goto(p, "TRAINER_CONSTRUCTED", << "get_trainer" >>)
    /\ UNCHANGED << fixed, setup, rank, n_ranks, gpus, barriers, released >>

\* config['trainer'] raises KeyError while the arguments are evaluated
GetTrainerKeyError(p) ==
    /\ pc[p] = "DEVICES_PLANNED"
    /\ "trainer" \notin config
    /\ Raise(p, "KeyError", << >>)

GetTrainerFails(p) ==
    /\ pc[p] = "DEVICES_PLANNED"
    /\ "trainer" \in config
    /\ Raise(p, "TrainerError", << "get_trainer" >>)

\* variant: building the trainer hands the devices back, the plan is emptied
BuildClearsPlan(p) ==
    /\ pc[p] = "TRAINER_CONSTRUCTED"
    /\ gpus' = [ gpus EXCEPT ![p] = Some(<< >>) ]
    /\ Goto(p, "TRAINER_BUILT", << "build" >>)
    /\ UNCHANGED << fixed, setup, rank, n_ranks, trainer, barriers, released >>

\* trainer.build(config)
Build(p) ==
    /\ pc[p] = "TRAINER_CONSTRUCTED"
    /\ Goto(p, "TRAINER_BUILT", << "build" >>)
    /\ UNCHANGED << fixed, setup, rank, n_ranks, gpus, trainer, barriers, released >>

BuildFails(p) ==
    /\ pc[p] = "TRAINER_CONSTRUCTED"
    /\ Raise(p, "BuildError", << "build" >>)

\* variant: the resume block stands before the trainer is loaded
LoadCheckpointBeforeTrainer(p) ==
    /\ pc[p] = "DEVICES_PLANNED"
    /\ args.resume
    /\ Goto(p, "RESUMED", << "load_checkpoint" >>)
    /\ UNCHANGED << fixed, setup, rank, n_ranks, gpus, trainer, barriers, released >>

\* variant: the checkpoint is loaded whether or not --resume is given
LoadCheckpointAlways(p) ==
    /\ pc[p] = "TRAINER_BUILT"
    /\ Goto(p, "RESUMED", << "load_checkpoint" >>)
    /\ UNCHANGED << fixed, setup, rank, n_ranks, gpus, trainer, barriers, released >>

\* if args.resume: trainer.load_checkpoint()
LoadCheckpoint(p) ==
    /\ pc[p] = "TRAINER_BUILT"
    /\ args.resume
    /\ Goto(p, "RESUMED", << "load_checkpoint" >>)
    /\ UNCHANGED << fixed, setup, rank, n_ranks, gpus, trainer, barriers, released >>

\* variant: the failure of load_checkpoint is caught and the run goes on
LoadCheckpointFailsCaught(p) ==
    /\ pc[p] = "TRAINER_BUILT"
    /\ args.resume
    /\ pc' = [ pc EXCEPT ![p] = "RESUMED" ]
    /\ trace' = [ trace EXCEPT ![p] = @ \o << "load_checkpoint" >> ]
    /\ raised' = [ raised EXCEPT ![p] = Some("CheckpointError") ]
    /\ UNCHANGED << fixed, setup, rank, n_ranks, gpus, trainer, barriers, released >>

\* trainer.load_checkpoint() raises
LoadCheckpointFails(p) ==
    /\ pc[p] = "TRAINER_BUILT"
    /\ args.resume
    /\ Raise(p, "CheckpointError", << "load_checkpoint" >>)

\* control has reached the trainer.train(...) statement
AtTrain(p) ==
    \/ pc[p] = "RESUMED"
    \/ pc[p] = "TRAINER_BUILT" /\ ~args.resume

\* variant: the try_barrier() after the training is missing
TrainNoBarrier(p) ==
    /\ \/ pc[p] = "RESUMED"
       \/ pc[p] = "TRAINER_BUILT" /\ ~args.resume
    /\ "train" \in config
    /\ Goto(p, "TRAINED", << "train" >>)
    /\ UNCHANGED << fixed, setup, rank, n_ranks, gpus, trainer, barriers, released >>

\* summary = trainer.train(..., **config['train']) returns; enters try_barrier()
Train(p) ==
    /\ AtTrain(p)
    /\ "train" \in config
    /\ barriers' = [ barriers EXCEPT ![p] = @ + 1 ]
    /\ Goto(p, "TRAIN_RETURNED", << "train", "try_barrier" >>)
    /\ UNCHANGED << fixed, setup, rank, n_ranks, gpus, trainer, released >>

TrainKeyError(p) ==
    /\ AtTrain(p)
    /\ "train" \notin config
    /\ Raise(p, "KeyError", << >>)

TrainFails(p) ==
    /\ AtTrain(p)
    /\ "train" \in config
    /\ Raise(p, "TrainingError", << "train" >>)

\* variant: the second barrier gives up waiting and returns
SecondBarrierTimesOut(p) ==
    /\ pc[p] = "TRAIN_RETURNED"
    /\ released' = [ released EXCEPT ![p] = @ + 1 ]
    /\ Goto(p, "TRAINED", << >>)
    /\ UNCHANGED << fixed, setup, rank, n_ranks, gpus, trainer, barriers >>

\* the second try_barrier() returns
SecondBarrier(p) ==
    /\ pc[p] = "TRAIN_RETURNED"
    /\ BarrierOpen(p)
    /\ released' = [ released EXCEPT ![p] = @ + 1 ]
    /\ Goto(p, "TRAINED", << >>)
    /\ UNCHANGED << fixed, setup, rank, n_ranks, gpus, trainer, barriers >>

\* variant: the validation line is computed and logged unconditionally
ReportAlwaysValid(p) ==
    /\ pc[p] = "TRAINED"
    /\ Goto(p, "REPORTED",
            << "info_finished", "summary_train_time", "info_train_rate",
               "summary_valid_time", "info_valid_rate" >>)
    /\ UNCHANGED << fixed, setup, rank, n_ranks, gpus, trainer, barriers, released >>

\* the report: 'Finished training', the train rate from summary['train_time']
\* and, if valid_data_loader is not None, the valid rate from
\* summary['valid_time']
Report(p) ==
    /\ pc[p] = "TRAINED"
    /\ Goto(p, "REPORTED",
            << "info_finished", "summary_train_time", "info_train_rate" >>
            \o (IF Val(loaders[p]).valid
                THEN << "summary_valid_time", "info_valid_rate" >>
                ELSE << >>))
    /\ UNCHANGED << fixed, setup, rank, n_ranks, gpus, trainer, barriers, released >>

\* logging.info('All done!')
AllDone(p) ==
    /\ pc[p] = "REPORTED"
    /\ Goto(p, "DONE", << "info_all_done" >>)
    /\ UNCHANGED << fixed, setup, rank, n_ranks, gpus, trainer, barriers, released >>

Next ==
    \E p \in Procs :
        \/ InitWorkers(p)
        \/ InitWorkersFails(p)
        \/ LoadConfig(p)
        \/ LoadConfigFails(p)
        \/ PrepareOutputDir(p)
        \/ SetupLogging(p)
        \/ FirstBarrier(p)
        \/ GetDataLoaders(p)
        \/ GetDataLoadersKeyError(p)
        \/ GetDataLoadersFails(p)
        \/ ChooseGpusStep(p)
        \/ GetTrainer(p)
        \/ GetTrainerKeyError(p)
        \/ GetTrainerFails(p)
        \/ Build(p)
        \/ BuildFails(p)
        \/ LoadCheckpoint(p)
        \/ LoadCheckpointFails(p)
        \/ Train(p)
        \/ TrainKeyError(p)
        \/ TrainFails(p)
        \/ SecondBarrier(p)
        \/ Report(p)
        \/ AllDone(p)

Spec == Init /\ [][Next]_vars

\* a step of worker p in a run where every external call returns
Returns(p) ==
    \/ InitWorkers(p)
    \/ LoadConfig(p)
    \/ PrepareOutputDir(p)
    \/ SetupLogging(p)
    \/ FirstBarrier(p)
    \/ GetDataLoaders(p)
    \/ GetDataLoadersKeyError(p)
    \/ ChooseGpusStep(p)
    \/ GetTrainer(p)
    \/ GetTrainerKeyError(p)
    \/ Build(p)
    \/ LoadCheckpoint(p)
    \/ Train(p)
    \/ TrainKeyError(p)
    \/ SecondBarrier(p)
    \/ Report(p)
    \/ AllDone(p)

NextReturns == \E p \in Procs : Returns(p)

\* every worker is its own process: it is not starved of its next statement
Fairness ==
    \A p \in 0 .. (MaxWorld - 1) : WF_vars(p \in Procs /\ Returns(p))

SpecLive == Init /\ [][NextReturns]_vars /\ Fairness

(* ------------------------ the planner alone ---------------------------- *)
\* the inputs of the "Choose GPUs" block, over a wide range of topologies
PlanInit ==
    /\ planner \in { [ args |-> Args(None, g, n, k, FALSE), n_ranks |-> w,
                        ranks |-> << >>, plans |-> << >>,
                        node |-> None, node_plans |-> << >> ] :
                        g \in Optional(ExplicitGpuLists),
                        n \in 1 .. MaxPlanRanksPerNode,
                        k \in Optional(1 .. MaxPlanGpusPerRank),
                        w \in 1 .. MaxPlanWorld }
    /\ world = 1
    /\ args = Idle.args
    /\ config = {}
    /\ has_valid = FALSE
    /\ pc = [ p \in Procs |-> "START" ]
    /\ rank = [ p \in Procs |-> None ]
    /\ n_ranks = [ p \in Procs |-> None ]
    /\ gpus = [ p \in Procs |-> None ]
    /\ trainer = [ p \in Procs |-> None ]
    /\ barriers = [ p \in Procs |-> 0 ]
    /\ released = [ p \in Procs |-> 0 ]
    /\ raised = [ p \in Procs |-> None ]
    /\ trace = [ p \in Procs |-> << >> ]
    /\ loaders = [ p \in Procs |-> None ]
    /\ log_file = [ p \in Procs |-> None ]
    /\ dir_exists = FALSE

\* two workers r1, r2 of the job run the "Choose GPUs" block
PlanPair(r1, r2) ==
    /\ planner.ranks = << >>
    /\ IsNone(planner.node)
    /\ planner' = [ planner EXCEPT
                      !.ranks = << r1, r2 >>,
                      !.plans = << ChooseGpus(planner.args, r1, planner.n_ranks),
                                   ChooseGpus(planner.args, r2, planner.n_ranks) >> ]
    /\ UNCHANGED orch_vars

\* the ranks placed on node k, ranks_per_node consecutive ranks to a node
NodeRanks(a, k, w) ==
    (k * a.ranks_per_node) .. (Min((k + 1) * a.ranks_per_node, w) - 1)

\* every worker of node k runs the "Choose GPUs" block
PlanNode(k) ==
    /\ planner.ranks = << >>
    /\ IsNone(planner.node)
    /\ NodeRanks(planner.args, k, planner.n_ranks) # {}
    /\ planner' = [ planner EXCEPT
                      !.node = Some(k),
                      !.node_plans =
                          [ j \in 1 .. Cardinality(NodeRanks(planner.args, k,
                                                             planner.n_ranks))
                              |-> ChooseGpus(planner.args,
                                             k * planner.args.ranks_per_node + j - 1,
                                             planner.n_ranks) ] ]
    /\ UNCHANGED orch_vars

PlanNext ==
    \/ \E r1, r2 \in 0 .. (planner.n_ranks - 1) : PlanPair(r1, r2)
    \/ \E k \in 0 .. (planner.n_ranks - 1) : PlanNode(k)

SpecPlan == PlanInit /\ [][PlanNext]_vars

(* ======================================================================= *)
(* Properties                                                              *)
(* ======================================================================= *)
\* the set of elements of the list s
Range(s) == { s[i] : i \in 1 .. Len(s) }
\* number of occurrences of the call c in the trace of worker p
Count(p, c) == Cardinality({ i \in 1 .. Len(trace[p]) : trace[p][i] = c })
Called(p, c) == \E i \in 1 .. Len(trace[p]) : trace[p][i] = c
\* every occurrence of c in the trace of p comes after an occurrence of b
After(p, c, b) ==
    \A i \in 1 .. Len(trace[p]) :
        trace[p][i] = c => \E j \in 1 .. (i - 1) : trace[p][j] = b

\* per-rank count derivation mode: no --gpus list, --gpus-per-rank given
DerivationMode(a) == IsNone(a.gpus) /\ ~IsNone(a.gpus_per_rank)
\* the two ranks of the planner run are distinct ranks of one node
SameNode(a, r1, r2) == r1 \div a.ranks_per_node = r2 \div a.ranks_per_node
Planned == planner.ranks # << >>

\* C1: in per-rank count derivation mode, two distinct ranks that share a
\* node (equal rank div ranks_per_node) get device sets with no common element.
C1_DevicePlansDisjoint ==
    ( /\ Planned
      /\ DerivationMode(planner.args)
      /\ planner.ranks[1] # planner.ranks[2]
      /\ SameNode(planner.args, planner.ranks[1], planner.ranks[2]) )
    => Range(planner.plans[1]) \cap Range(planner.plans[2]) = {}

\* two distinct ranks of the second node of a two-node job, two GPUs each
C1_Witness ==
    /\ Planned
    /\ DerivationMode(planner.args)
    /\ planner.n_ranks = 16
    /\ planner.args.ranks_per_node = 8
    /\ planner.args.gpus_per_rank = Some(2)
    /\ planner.ranks = << 9, 10 >>
    /\ planner.plans = << <<1, 9>>, <<2, 10>> >>

\* the layouts of the design document, written from its formulas, for rank r
\* of w workers with n ranks per node and g GPUs per rank
StridedLayout(r, w, n, g) ==
    [ k \in 1 .. g |-> (k - 1) * Min(n, w) + (r % Min(n, w)) ]
ContiguousLayout(r, w, n, g) ==
    [ k \in 1 .. g |-> (r % Min(n, w)) * g + (k - 1) ]

\* C2: in per-rank count derivation mode the plan of every rank is the strided
\* layout i * local_size + local_rank, i = 0..gpus_per_rank-1 (rank 9 of 16
\* with 8 ranks per node and 2 GPUs per rank gets [1, 9]), and it is not the
\* contiguous layout local_rank * gpus_per_rank + i where the two differ.
C2_PlanIsStrided ==
    (Planned /\ DerivationMode(planner.args)) =>
        \A k \in 1 .. 2 :
            LET r == planner.ranks[k]
                w == planner.n_ranks
                n == planner.args.ranks_per_node
                g == Val(planner.args.gpus_per_rank)
            IN  /\ planner.plans[k] = StridedLayout(r, w, n, g)
                /\ (StridedLayout(r, w, n, g) # ContiguousLayout(r, w, n, g)
                      => planner.plans[k] # ContiguousLayout(r, w, n, g))
                /\ (r = 9 /\ w = 16 /\ n = 8 /\ g = 2
                      => planner.plans[k] = << 1, 9 >>)

\* the example of the design document, where the two layouts differ
C2_Witness ==
    /\ Planned
    /\ DerivationMode(planner.args)
    /\ planner.n_ranks = 16
    /\ planner.args.ranks_per_node = 8
    /\ planner.args.gpus_per_rank = Some(2)
    /\ planner.ranks[1] = 9
    /\ planner.plans[1] = << 1, 9 >>
    /\ ContiguousLayout(9, 16, 8, 2) = << 2, 3 >>

\* C3: with an explicit --gpus list, the devices handed to get_trainer are
\* exactly that list, in order, whatever --gpus-per-rank, the rank, the world
\* size and the ranks per node are.
C3_ExplicitListVerbatim ==
    \A p \in Procs :
        (~IsNone(args.gpus) /\ ~IsNone(trainer[p]))
            => /\ Val(trainer[p]).devices = Val(args.gpus)
               /\ gpus[p] = args.gpus

\* both --gpus and --gpus-per-rank given, and the derived plan of the worker
\* differs from the explicit list
C3_Witness ==
    \E p \in Procs :
        /\ ~IsNone(args.gpus)
        /\ ~IsNone(args.gpus_per_rank)
        /\ ~IsNone(trainer[p])
        /\ world = 2
        /\ Val(rank[p]) = 1
        /\ DerivedGpus(args, Val(rank[p]), Val(n_ranks[p])) # Val(args.gpus)
        /\ Val(trainer[p]).devices = << 1, 0 >>

\* C4: load_checkpoint() is never invoked before get_trainer has returned the
\* trainer and trainer.build has been called on it.
C4_ResumeAfterTrainer ==
    \A p \in Procs :
        Called(p, "load_checkpoint") =>
            /\ ~IsNone(trainer[p])
            /\ After(p, "load_checkpoint", "get_trainer")
            /\ After(p, "load_checkpoint", "build")

\* a worker has just loaded its checkpoint
C4_Witness ==
    \E p \in Procs :
        /\ pc[p] = "RESUMED"
        /\ trace[p][Len(trace[p])] = "load_checkpoint"

NotPast(p, s) == pc[p] = "ABORTED" \/ Ord(pc[p]) <= Ord(s)

ReportLines == {"info_finished", "info_train_rate", "info_valid_rate"}

\* C6: a worker that reaches DONE has called try_barrier exactly twice: once
\* after config_logging and before get_data_loaders, once after trainer.train
\* returned and before any line of the report; a barrier call never stands
\* anywhere else.
C6_TwoBarriers ==
    \A p \in Procs :
        /\ \A i \in 1 .. Len(trace[p]) :
              trace[p][i] = "try_barrier" =>
                  i > 1 /\ trace[p][i - 1] \in {"info_initialized", "train"}
        /\ pc[p] = "DONE" =>
              /\ Count(p, "try_barrier") = 2
              /\ barriers[p] = 2
              /\ released[p] = 2
              /\ \E i, j \in 1 .. Len(trace[p]) :
                    /\ i < j
                    /\ trace[p][i] = "try_barrier"
                    /\ trace[p][j] = "try_barrier"
                    /\ \E k \in 1 .. (i - 1) : trace[p][k] = "config_logging"
                    /\ \E k \in (i + 1) .. (j - 1) :
                          trace[p][k] = "get_data_loaders"
                    /\ trace[p][j - 1] = "train"
                    /\ \A k \in 1 .. Len(trace[p]) :
                          trace[p][k] \in ReportLines => j < k

\* a worker has finished
C6_Witness ==
    \E p \in Procs : pc[p] = "DONE" /\ Count(p, "try_barrier") = 2

\* C7: no worker leaves a barrier before every worker has entered it; so no
\* worker calls get_data_loaders before every worker has configured logging,
\* and no worker logs its train rate before trainer.train has returned in
\* every worker.
C7_BarrierSynchronises ==
    \A p \in Procs :
        /\ \A q \in Procs : barriers[q] >= released[p]
        /\ (released[p] >= 1 \/ Called(p, "get_data_loaders")) =>
              \A q \in Procs : Called(q, "config_logging")
        /\ (released[p] >= 2 \/ Called(p, "info_train_rate")) =>
              \A q \in Procs : Called(q, "train") /\ barriers[q] = 2

\* one worker has reported while another is still inside the second barrier
C7_Witness ==
    \E p, q \in Procs :
        /\ p # q
        /\ Called(p, "info_train_rate")
        /\ pc[q] = "TRAIN_RETURNED"

\* C8: the states are visited in the listed order: every step of a worker
\* leads to the next state of the list (RESUMED may be skipped) or ends the
\* process, never to an earlier or the same state, and get_trainer,
\* trainer.build and trainer.train are each invoked at most once.
C8_StrictOrder ==
    /\ [](\A p \in Procs :
            \A c \in {"get_trainer", "build", "train"} : Count(p, c) <= 1)
    /\ [][\A p \in Procs :
            pc'[p] # pc[p] =>
                /\ pc[p] # "ABORTED"
                /\ \/ pc'[p] = "ABORTED"
                   \/ Ord(pc'[p]) = Ord(pc[p]) + 1
                   \/ pc[p] = "TRAINER_BUILT" /\ pc'[p] = "TRAIN_RETURNED"]_vars

\* a resumed run has gone through every state
C8_Witness ==
    \E p \in Procs :
        /\ pc[p] = "DONE"
        /\ args.resume
        /\ Count(p, "get_trainer") = 1
        /\ Count(p, "build") = 1
        /\ Count(p, "train") = 1

\* the call that raises each exception of an external step
FailedCall(e) ==
    CASE e = "TopologyError" -> "init_workers"
      [] e = "ConfigError" -> "load_config"
      [] e = "DataError" -> "get_data_loaders"
      [] e = "TrainerError" -> "get_trainer"
      [] e = "BuildError" -> "build"
      [] e = "CheckpointError" -> "load_checkpoint"
      [] e = "TrainingError" -> "train"

\* C9: no local recovery: when a step fails (init_workers, load_config,
\* get_data_loaders, get_trainer, build, load_checkpoint, train) the failed
\* call is the last thing the worker does: it runs no later step, never is
\* REPORTED or DONE, and logs no throughput.
C9_NoRecovery ==
    /\ [](\A p \in Procs :
            ~IsNone(raised[p]) =>
                /\ pc[p] = "ABORTED"
                /\ \A c \in ReportLines \cup {"info_all_done"} : ~Called(p, c)
                /\ Val(raised[p]) # "KeyError" =>
                      trace[p][Len(trace[p])] = FailedCall(Val(raised[p])))
    /\ [][\A p \in Procs :
            ~IsNone(raised[p]) =>
                /\ pc'[p] = pc[p]
                /\ trace'[p] = trace[p]
                /\ barriers'[p] = barriers[p]
                /\ released'[p] = released[p]
                /\ trainer'[p] = trainer[p]
                /\ gpus'[p] = gpus[p]]_vars

\* load_checkpoint has failed in one worker, which stopped there
C9_Witness ==
    \E p \in Procs :
        /\ raised[p] = Some("CheckpointError")
        /\ pc[p] = "ABORTED"
        /\ Called(p, "build")

\* C10: load_checkpoint runs if and only if --resume is given: with it, once,
\* right after trainer.build and right before trainer.train; without it,
\* never, and trainer.train follows trainer.build directly.
C10_ResumeIffFlag ==
    \A p \in Procs :
        /\ Count(p, "load_checkpoint") <= 1
        /\ Called(p, "load_checkpoint") => args.resume
        /\ pc[p] = "RESUMED" => args.resume
        /\ \A i \in 1 .. Len(trace[p]) :
              /\ trace[p][i] = "load_checkpoint" =>
                    i > 1 /\ trace[p][i - 1] = "build"
              /\ trace[p][i] = "train" =>
                    /\ i > 1
                    /\ trace[p][i - 1] =
                          IF args.resume THEN "load_checkpoint" ELSE "build"
                    /\ Count(p, "load_checkpoint") = IF args.resume THEN 1 ELSE 0

\* a resumed worker has started training
C10_Witness ==
    \E p \in Procs :
        /\ args.resume
        /\ Called(p, "train")
        /\ Count(p, "load_checkpoint") = 1

\* C11: the distributed flag given to get_data_loaders and to get_trainer is
\* true exactly when a backend was selected on the command line, whatever the
\* world size: a backend with one worker gives true, no backend gives false.
C11_DistributedIffBackend ==
    \A p \in Procs :
        /\ ~IsNone(loaders[p]) =>
              (Val(loaders[p]).distributed <=> ~IsNone(args.distributed_backend))
        /\ ~IsNone(trainer[p]) =>
              (Val(trainer[p]).distributed <=> ~IsNone(args.distributed_backend))

\* a job of one worker started with a backend: both flags are true
C11_Witness ==
    /\ world = 1
    /\ ~IsNone(args.distributed_backend)
    /\ ~IsNone(trainer[0])
    /\ Val(trainer[0]).distributed
    /\ Val(loaders[0]).distributed

\* neither --gpus nor --gpus-per-rank on the command line
DefaultMode(a) == IsNone(a.gpus) /\ IsNone(a.gpus_per_rank)

\* C12: with neither --gpus nor --gpus-per-rank the plan, and what get_trainer
\* receives as devices, is the empty list for every rank, world size and
\* ranks per node; the step raises nothing and leads on to DEVICES_PLANNED.
C12_DefaultPlanEmpty ==
    /\ [](\A p \in Procs :
            DefaultMode(args) =>
                /\ ~IsNone(gpus[p]) => Val(gpus[p]) = << >>
                /\ ~IsNone(trainer[p]) => Val(trainer[p]).devices = << >>
                /\ ~Called(p, "info_using_gpus"))
    /\ [][\A p \in Procs :
            (DefaultMode(args) /\ pc[p] = "DATA_LOADED" /\ pc'[p] # pc[p]) =>
                /\ pc'[p] = "DEVICES_PLANNED"
                /\ IsNone(raised'[p])
                /\ gpus'[p] = Some(<< >>)]_vars

\* the second of two workers got a trainer with no devices
C12_Witness ==
    \E p \in Procs :
        /\ DefaultMode(args)
        /\ world = 2
        /\ rank[p] = Some(1)
        /\ ~IsNone(trainer[p])
        /\ Val(trainer[p]).devices = << >>

\* C13: with an output_dir every worker logs to out_<rank>.log in it and to
\* no other file, so two workers of distinct ranks never log to one file;
\* without an output_dir no worker has a log file; the file is opened for
\* appending exactly when --resume is given.
C13_LogFilePerRank ==
    \A p \in Procs :
        ~IsNone(log_file[p]) =>
            LET l == Val(log_file[p])
            IN  /\ "output_dir" \in config =>
                      l.log_file = Some(<< "out_", Val(rank[p]), ".log" >>)
                /\ "output_dir" \notin config => IsNone(l.log_file)
                /\ l.append <=> args.resume
                /\ ~IsNone(l.log_file) =>
                      (OpenMode(l.append) = "a" <=> args.resume)
                /\ \A q \in Procs :
                      ( /\ ~IsNone(log_file[q])
                        /\ rank[q] # rank[p]
                        /\ ~IsNone(l.log_file) )
                      => Val(log_file[q]).log_file # l.log_file

\* two workers of a resumed job have opened their log files
C13_Witness ==
    \E p, q \in Procs :
        /\ rank[p] = Some(0)
        /\ rank[q] = Some(1)
        /\ args.resume
        /\ ~IsNone(log_file[p])
        /\ ~IsNone(log_file[q])
        /\ Val(log_file[p]).log_file = Some(<< "out_", 0, ".log" >>)
        /\ Val(log_file[q]).log_file = Some(<< "out_", 1, ".log" >>)
        /\ Val(log_file[p]).append

\* C14: preparing the output directory is idempotent: with an output_dir the
\* step never raises, whether or not the directory exists and however the
\* workers interleave, and the directory exists afterwards and stays; without
\* an output_dir the step creates nothing.
C14_MakedirsIdempotent ==
    /\ [](\A p \in Procs :
            /\ raised[p] # Some("FileExistsError")
            /\ Called(p, "makedirs") => dir_exists /\ "output_dir" \in config)
    /\ [][/\ dir_exists => dir_exists'
          /\ \A p \in Procs :
               (pc[p] = "CONFIG_LOADED" /\ pc'[p] # pc[p]) =>
                   /\ pc'[p] = "OUTPUT_PREPARED"
                   /\ IsNone(raised'[p])
                   /\ "output_dir" \in config => dir_exists'
                   /\ "output_dir" \notin config =>
                         ~dir_exists' /\ trace'[p] = trace[p]]_vars

\* both workers have run makedirs on the same path, the later one on the
\* directory the earlier one made or found
C14_Witness ==
    /\ world = 2
    /\ dir_exists
    /\ \A p \in Procs :
          /\ Called(p, "makedirs")
          /\ pc[p] = "OUTPUT_PREPARED"
          /\ IsNone(raised[p])

\* C15: a failure of the topology discovery comes before any other setup: the
\* worker it stops has loaded no configuration, made no directory, opened no
\* log file and called no barrier.
C15_TopologyFailureFirst ==
    \A p \in Procs :
        raised[p] = Some("TopologyError") =>
            /\ trace[p] = << "init_workers" >>
            /\ IsNone(log_file[p])
            /\ IsNone(loaders[p])
            /\ barriers[p] = 0
            /\ IsNone(rank[p])

\* init_workers has failed in one worker while the other went on
C15_Witness ==
    \E p, q \in Procs :
        /\ raised[p] = Some("TopologyError")
        /\ pc[p] = "ABORTED"
        /\ Called(q, "load_config")

\* C16: a barrier has no timeout: once a worker has aborted before entering a
\* barrier, no other worker ever leaves that barrier, and none is TRAINED past
\* the second barrier, REPORTED or DONE unless the aborted worker had entered it.
C16_AbortStallsBarrier ==
    /\ [](\A q \in Procs :
            pc[q] = "ABORTED" =>
                \A p \in Procs \ {q} :
                    /\ released[p] <= barriers[q]
                    /\ barriers[q] < 2 =>
                          /\ pc[p] \notin {"TRAINED", "REPORTED", "DONE"}
                          /\ ~Called(p, "info_train_rate")
                    /\ barriers[q] < 1 => NotPast(p, "LOGGING_CONFIGURED"))
    /\ [][\A q \in Procs :
            pc[q] = "ABORTED" =>
                pc'[q] = "ABORTED" /\ barriers'[q] = barriers[q]]_vars

\* load_checkpoint failed in one worker; the other trained and waits in the
\* second barrier
C16_Witness ==
    \E p, q \in Procs :
        /\ raised[q] = Some("CheckpointError")
        /\ barriers[q] = 1
        /\ pc[p] = "TRAIN_RETURNED"
        /\ barriers[p] = 2
        /\ released[p] = 1

\* C17: a worker in REPORTED (or past it) has logged the train rate exactly
\* once, and has logged the valid rate if and only if its validation data
\* loader is not None; without a validation loader summary['valid_time'] is
\* never read.
C17_ReportLines ==
    \A p \in Procs :
        /\ pc[p] \in {"REPORTED", "DONE"} =>
              /\ Count(p, "info_train_rate") = 1
              /\ Count(p, "summary_train_time") = 1
              /\ Called(p, "info_valid_rate") <=> Val(loaders[p]).valid
              /\ Count(p, "info_valid_rate") <= 1
        /\ Called(p, "summary_valid_time") =>
              ~IsNone(loaders[p]) /\ Val(loaders[p]).valid
        /\ Called(p, "info_valid_rate") => Called(p, "summary_valid_time")

\* one run has reported without a validation loader
C17_Witness ==
    \E p \in Procs :
        /\ pc[p] = "REPORTED"
        /\ ~Val(loaders[p]).valid
        /\ Called(p, "info_train_rate")
        /\ ~Called(p, "summary_valid_time")

\* C18: when no call raises and the configuration has every key main() reads,
\* every worker eventually reaches DONE under fair scheduling of the workers;
\* and in a single-process run a barrier the worker has entered is open at
\* once, so it never blocks.
C18_AllReachDone ==
    /\ (RequiredKeys \subseteq config) ~> (\A p \in Procs : pc[p] = "DONE")
    /\ [](world = 1 =>
            \A p \in Procs :
                pc[p] \in {"LOGGING_CONFIGURED", "TRAIN_RETURNED"} =>
                    BarrierOpen(p) /\ ENABLED Returns(p))

\* all workers of a two-process run are done
C18_Witness ==
    /\ world = 2
    /\ RequiredKeys \subseteq config
    /\ \A p \in Procs : pc[p] = "DONE" /\ released[p] = 2

\* C19: in per-rank count derivation mode the plan of every rank has exactly
\* gpus_per_rank elements, is strictly increasing, and each element d has
\* 0 <= d < gpus_per_rank * min(ranks_per_node, world_size); and the plans of
\* a node holding local_size ranks together are exactly
\* 0 .. gpus_per_rank * local_size - 1.
C19_PlanShape ==
    (~IsNone(planner.node) /\ DerivationMode(planner.args)) =>
        LET g == Val(planner.args.gpus_per_rank)
            ls == Min(planner.args.ranks_per_node, planner.n_ranks)
            ps == planner.node_plans
        IN  /\ \A j \in 1 .. Len(ps) :
                  /\ Len(ps[j]) = g
                  /\ \A i \in 1 .. (g - 1) : ps[j][i] < ps[j][i + 1]
                  /\ \A i \in 1 .. g : 0 <= ps[j][i] /\ ps[j][i] < g * ls
            /\ Len(ps) = ls =>
                  UNION { Range(ps[j]) : j \in 1 .. Len(ps) }
                      = 0 .. (g * ls - 1)

\* the second, full node of a two-node job, two GPUs per rank
C19_Witness ==
    /\ planner.node = Some(1)
    /\ DerivationMode(planner.args)
    /\ planner.n_ranks = 16
    /\ planner.args.ranks_per_node = 8
    /\ planner.args.gpus_per_rank = Some(2)
    /\ Len(planner.node_plans) = 8
    /\ planner.node_plans[2] = << 1, 9 >>
    /\ planner.node_plans[8] = << 7, 15 >>

\* C20: rank and world size are set once, by init_workers, and never change
\* afterwards; the device plan is set exactly once, in the step from
\* DATA_LOADED to DEVICES_PLANNED, before the trainer exists, and never changes
\* afterwards; the devices and the rank handed to get_trainer are those values.
C20_IdentityAndPlanFixed ==
    /\ [](\A p \in Procs :
            ~IsNone(trainer[p]) =>
                /\ ~IsNone(gpus[p])
                /\ Val(trainer[p]).devices = Val(gpus[p])
                /\ Val(trainer[p]).devices
                      = ChooseGpus(args, Val(rank[p]), Val(n_ranks[p]))
                /\ Val(trainer[p]).rank = Val(rank[p]))
    /\ [][\A p \in Procs :
            /\ ~IsNone(rank[p]) =>
                  rank'[p] = rank[p] /\ n_ranks'[p] = n_ranks[p]
            /\ (rank'[p] # rank[p] \/ n_ranks'[p] # n_ranks[p]) =>
                  pc[p] = "START" /\ pc'[p] = "TOPOLOGY_DISCOVERED"
            /\ ~IsNone(gpus[p]) => gpus'[p] = gpus[p]
            /\ gpus'[p] # gpus[p] =>
                  /\ pc[p] = "DATA_LOADED"
                  /\ pc'[p] = "DEVICES_PLANNED"
                  /\ ~IsNone(loaders[p])
                  /\ IsNone(trainer'[p])
            /\ ~IsNone(trainer[p]) => trainer'[p] = trainer[p]]_vars

\* rank 1 of a resumed two-process run is done and still holds the plan its
\* trainer was given
C20_Witness ==
    \E p \in Procs :
        /\ pc[p] = "DONE"
        /\ args.resume
        /\ world = 2
        /\ rank[p] = Some(1)
        /\ n_ranks[p] = Some(2)
        /\ Val(gpus[p]) # << >>
        /\ Val(trainer[p]).devices = Val(gpus[p])
        /\ Called(p, "load_checkpoint")

====
